---- MODULE Spec2Model ----
(***************************************************************************)
(* A model of pybullet_tools/voxels.py: the sparse voxel grid VoxelGrid,   *)
(* its occupancy map, the two cache lists it keeps beside the map, and the *)
(* algorithms that read them.                                              *)
(*                                                                         *)
(* Lengths are integers counted in half cells: a cell is Res = 2 units     *)
(* wide on every axis, so that the centre (v + 0.5) * resolution of a      *)
(* voxel is the integer 2 v + 1.  A pose is a translation.                 *)
(***************************************************************************)
EXTENDS Integers, Sequences, FiniteSets, TLC

\* Bound: the grid operations are driven over the voxels <<0..MaxI, 0, 0>>.
MaxI == 1

\* self.resolutions: the width of a cell on every axis, in model units.
Res == 2

VARIABLES
    value_from_voxel,       \* self.value_from_voxel: voxel -> value
    occupied_points,        \* self.occupied_points: list of centres
    occupied_voxel_points,  \* self.occupied_voxel_points: list of voxels
    world_from_grid,        \* self.world_from_grid: a translation
    last,                   \* the last call: its name, arguments and result
    height_map,             \* create_height_map: the image being painted
    todo                    \* create_height_map: the entries not yet painted

vars == <<value_from_voxel, occupied_points, occupied_voxel_points,
          world_from_grid, last, height_map, todo>>

-----------------------------------------------------------------------------
(* Vectors, lists, sorting *)

Add3(a, b) == <<a[1] + b[1], a[2] + b[2], a[3] + b[3]>>

Sub3(a, b) == <<a[1] - b[1], a[2] - b[2], a[3] - b[3]>>

\* Python's tuple order on integer triples.
LexLess(a, b) ==
    \/ a[1] < b[1]
    \/ a[1] = b[1] /\ a[2] < b[2]
    \/ a[1] = b[1] /\ a[2] = b[2] /\ a[3] < b[3]

RECURSIVE SortedSeq(_)
\* sorted(S) for a finite set S of integer triples.
SortedSeq(S) ==
    IF S = {} THEN <<>>
    ELSE LET m == CHOOSE x \in S : \A y \in S \ {x} : LexLess(x, y)
         IN <<m>> \o SortedSeq(S \ {m})

Range(s) == {s[i] : i \in 1..Len(s)}

\* list.index(x): the first position holding x (0 when there is none, where
\* Python raises ValueError).
ListIndex(s, x) ==
    IF \E i \in 1..Len(s) : s[i] = x
    THEN CHOOSE i \in 1..Len(s) : s[i] = x /\ \A j \in 1..(i - 1) : s[j] # x
    ELSE 0

\* s without the entry at position i.
DropAt(s, i) == [j \in 1..(Len(s) - 1) |-> IF j < i THEN s[j] ELSE s[j + 1]]

\* list.remove(x): s without its first entry equal to x.
ListRemove(s, x) == DropAt(s, ListIndex(s, x))

-----------------------------------------------------------------------------
(* The grid as a value, so that the methods compose *)

Grid(vfv, pts, vox) ==
    [value_from_voxel |-> vfv, occupied_points |-> pts,
     occupied_voxel_points |-> vox]

\* VoxelGrid.__init__: an empty map and two empty lists.
EmptyGrid == Grid(<<>>, <<>>, <<>>)

Self == Grid(value_from_voxel, occupied_points, occupied_voxel_points)

\* default = bool, and bool() is False.
default == FALSE

Values == {FALSE, TRUE}

unit_pose == <<0, 0, 0>>

-----------------------------------------------------------------------------
(* Coordinates *)

to_grid(wfg, point_world) == Sub3(point_world, wfg)

to_world(wfg, point_grid) == Add3(wfg, point_grid)

\* floor(point_grid / resolutions), per axis.
voxel_from_point(wfg, point) ==
    LET pg == to_grid(wfg, point)
    IN <<pg[1] \div Res, pg[2] \div Res, pg[3] \div Res>>

lower_from_voxel(voxel) == <<voxel[1] * Res, voxel[2] * Res, voxel[3] * Res>>

\* lower_from_voxel(voxel + 0.5): a point of the grid frame.
center_from_voxel(voxel) ==
    <<voxel[1] * Res + Res \div 2, voxel[2] * Res + Res \div 2,
      voxel[3] * Res + Res \div 2>>

upper_from_voxel(voxel) ==
    <<(voxel[1] + 1) * Res, (voxel[2] + 1) * Res, (voxel[3] + 1) * Res>>

\* get_aabb_vertices: the eight corners of a box.
get_aabb_vertices(aabb) ==
    {<<x, y, z>> : x \in {aabb.lower[1], aabb.upper[1]},
                   y \in {aabb.lower[2], aabb.upper[2]},
                   z \in {aabb.lower[3], aabb.upper[3]}}

SetMin(S) == CHOOSE x \in S : \A y \in S : x <= y

SetMax(S) == CHOOSE x \in S : \A y \in S : y <= x

\* The voxels of the corners, their per-axis extremes (aabb_from_points), and
\* the product of the inclusive ranges, in the order product() yields them.
voxels_from_aabb(wfg, aabb) ==
    LET vs == {voxel_from_point(wfg, p) : p \in get_aabb_vertices(aabb)}
        lo(k) == SetMin({v[k] : v \in vs})
        hi(k) == SetMax({v[k] : v \in vs})
    IN SortedSeq({<<i, j, k>> : i \in lo(1)..hi(1), j \in lo(2)..hi(2),
                                k \in lo(3)..hi(3)})

-----------------------------------------------------------------------------
(* The occupancy map and its caches *)

contains(g, voxel) == voxel \in DOMAIN g.value_from_voxel

is_occupied(g, voxel) == contains(g, voxel)

\* self.value_from_voxel[voxel] = value: the caches are not touched.
set_value(g, voxel, value) ==
    [g EXCEPT !.value_from_voxel =
        [v \in DOMAIN g.value_from_voxel \cup {voxel} |->
            IF v = voxel THEN value ELSE g.value_from_voxel[v]]]

\* self.value_from_voxel.pop(voxel) when present: the caches are not touched.
remove_value(g, voxel) ==
    IF contains(g, voxel)
    THEN [g EXCEPT !.value_from_voxel =
            [v \in DOMAIN g.value_from_voxel \ {voxel} |-> g.value_from_voxel[v]]]
    ELSE g

\* A mutant: the cache lists are appended to even when the voxel is occupied.
set_occupied_always_appends(g, voxel) ==
    [g |-> [set_value(g, voxel, default) EXCEPT
                !.occupied_points = Append(@, center_from_voxel(voxel)),
                !.occupied_voxel_points = Append(@, voxel)],
     ret |-> IF is_occupied(g, voxel) THEN "False" ELSE "True"]

set_occupied(g, voxel) ==
    IF is_occupied(g, voxel)
    THEN [g |-> g, ret |-> "False"]
    ELSE [g |-> [set_value(g, voxel, default) EXCEPT
                    !.occupied_points = Append(@, center_from_voxel(voxel)),
                    !.occupied_voxel_points = Append(@, voxel)],
          ret |-> "True"]

\* The map entry is popped first; list.index then raises ValueError when the
\* centre is in no cache entry, and the call ends there.
set_free(g, voxel) ==
    IF ~is_occupied(g, voxel)
    THEN [g |-> g, ret |-> "False"]
    ELSE LET g1 == remove_value(g, voxel)
             idx == ListIndex(g1.occupied_points, center_from_voxel(voxel))
         IN IF idx = 0
            THEN [g |-> g1, ret |-> "ValueError"]
            ELSE [g |-> [g1 EXCEPT
                     !.occupied_points =
                         ListRemove(@, g1.occupied_points[idx]),
                     !.occupied_voxel_points =
                         ListRemove(@, g1.occupied_voxel_points[idx])],
                  ret |-> "True"]

\* VoxelGrid.copy: a new grid that is given the map and nothing else.
copy(g) == [EmptyGrid EXCEPT !.value_from_voxel = g.value_from_voxel]

add_point(g, wfg, point) == set_occupied(g, voxel_from_point(wfg, point)).g

RECURSIVE add_voxels(_, _)
add_voxels(g, voxels) ==
    IF voxels = <<>> THEN g
    ELSE add_voxels(set_occupied(g, Head(voxels)).g, Tail(voxels))

add_aabb(g, wfg, aabb) == add_voxels(g, voxels_from_aabb(wfg, aabb))

-----------------------------------------------------------------------------
(* The grid operations as actions *)

Voxels == {<<i, 0, 0>> : i \in 0..MaxI}

\* The longest cache the model follows: one entry more than there are voxels
\* (a voxel is cached twice after set_occupied, remove_value, set_occupied).
MaxCache == MaxI + 2

\* Points of the world along the row of Voxels.
WorldPoints == {<<x, 1, 1>> : x \in 0..(Res * MaxI + Res - 1)}

\* Boxes from the centre of one voxel to the centre of another.
WorldBoxes ==
    {[lower |-> center_from_voxel(p[1]), upper |-> center_from_voxel(p[2])] :
        p \in {q \in Voxels \X Voxels : q[1][1] <= q[2][1]}}

\* No call is under way: the caller has taken the result of the last one.
Idle == last.op = "idle"

Becomes(g) ==
    /\ Idle
    /\ Len(g.occupied_points) <= MaxCache
    /\ DOMAIN g.value_from_voxel \subseteq Voxels
    /\ value_from_voxel' = g.value_from_voxel
    /\ occupied_points' = g.occupied_points
    /\ occupied_voxel_points' = g.occupied_voxel_points

NoHeightMap == UNCHANGED <<height_map, todo>>

Call(op) == [op |-> op]

SetValue ==
    \E voxel \in Voxels, value \in Values :
        /\ Becomes(set_value(Self, voxel, value))
        /\ last' = Call("set_value")
        /\ UNCHANGED world_from_grid /\ NoHeightMap

RemoveValue ==
    \E voxel \in Voxels :
        /\ Becomes(remove_value(Self, voxel))
        /\ last' = Call("remove_value")
        /\ UNCHANGED world_from_grid /\ NoHeightMap

SetOccupied ==
    \E voxel \in Voxels :
        LET r == set_occupied(Self, voxel)
        IN /\ Becomes(r.g)
           /\ last' = [op |-> "set_occupied", voxel |-> voxel, ret |-> r.ret,
                       pre |-> Self]
           /\ UNCHANGED world_from_grid /\ NoHeightMap

SetFree ==
    \E voxel \in Voxels :
        LET r == set_free(Self, voxel)
        IN /\ Becomes(r.g)
           /\ last' = [op |-> "set_free", voxel |-> voxel, ret |-> r.ret,
                       pre |-> Self]
           /\ UNCHANGED world_from_grid /\ NoHeightMap

AddPoint ==
    \E point \in WorldPoints :
        /\ Becomes(add_point(Self, world_from_grid, point))
        /\ last' = Call("add_point")
        /\ UNCHANGED world_from_grid /\ NoHeightMap

AddAabb ==
    \E aabb \in WorldBoxes :
        /\ Becomes(add_aabb(Self, world_from_grid, aabb))
        /\ last' = Call("add_aabb")
        /\ UNCHANGED world_from_grid /\ NoHeightMap

\* The program goes on with the grid copy() returned.
Copy ==
    /\ Becomes(copy(Self))
    /\ last' = Call("copy")
    /\ UNCHANGED world_from_grid /\ NoHeightMap

\* The call returns to its caller, which keeps nothing of it.
Return ==
    /\ ~Idle
    /\ last' = Call("idle")
    /\ UNCHANGED <<value_from_voxel, occupied_points, occupied_voxel_points,
                   world_from_grid>>
    /\ NoHeightMap

Init ==
    /\ value_from_voxel = EmptyGrid.value_from_voxel
    /\ occupied_points = EmptyGrid.occupied_points
    /\ occupied_voxel_points = EmptyGrid.occupied_voxel_points
    /\ world_from_grid = unit_pose
    /\ last = Call("idle")
    /\ height_map = <<>>
    /\ todo = {}

Next ==
    \/ SetValue
    \/ RemoveValue
    \/ SetOccupied
    \/ SetFree
    \/ AddPoint
    \/ AddAabb
    \/ Copy
    \/ Return

Spec == Init /\ [][Next]_vars

-----------------------------------------------------------------------------
(* Bodies, and the collision oracle *)

Bodies == {1, 2}

\* get_all_links(body): every body here is its base link alone.
get_all_links(body) == <<-1>>

\* The (body, link) pairs of the given bodies, in the order the loops of
\* get_affected visit them.
RECURSIVE body_links(_)
body_links(bodies) ==
    IF bodies = <<>> THEN <<>>
    ELSE [i \in 1..Len(get_all_links(Head(bodies))) |->
             <<Head(bodies), get_all_links(Head(bodies))[i]>>]
         \o body_links(Tail(bodies))

\* The world of the physics engine at the time of a call: for every
\* (body, link) its box, scene[pair].aabb, and the voxels at which the probe
\* box intersects it, scene[pair].solid.
get_aabb(scene, pair) == scene[pair].aabb

pairwise_link_collision(scene, pair, voxel) == voxel \in scene[pair].solid

\* dict.setdefault(voxel, []).append(pair), on a dict kept as its keys in
\* insertion order and its values.
dict_append(d, voxel, pair) ==
    IF voxel \in DOMAIN d.val
    THEN [d EXCEPT !.val[voxel] = Append(@, pair)]
    ELSE [keys |-> Append(d.keys, voxel), val |-> d.val @@ (voxel :> <<pair>>)]

RECURSIVE affected_voxels(_, _, _, _, _)
\* The innermost loop of get_affected, over the voxels of one link's box.
affected_voxels(g, d, pair, voxels, occupied) ==
    IF voxels = <<>> THEN d
    ELSE affected_voxels(
             g,
             IF is_occupied(g, Head(voxels)) = occupied
             THEN dict_append(d, Head(voxels), pair) ELSE d,
             pair, Tail(voxels), occupied)

RECURSIVE affected_pairs(_, _, _, _, _, _)
affected_pairs(g, wfg, scene, d, pairs, occupied) ==
    IF pairs = <<>> THEN d
    ELSE affected_pairs(
             g, wfg, scene,
             affected_voxels(g, d, Head(pairs),
                             voxels_from_aabb(wfg, get_aabb(scene, Head(pairs))),
                             occupied),
             Tail(pairs), occupied)

\* A mutant: the flag is ignored and the occupied voxels are always taken.
get_affected_occupied(g, wfg, scene, bodies, occupied) ==
    affected_pairs(g, wfg, scene, [keys |-> <<>>, val |-> <<>>],
                   body_links(bodies), TRUE)

get_affected(g, wfg, scene, bodies, occupied) ==
    affected_pairs(g, wfg, scene, [keys |-> <<>>, val |-> <<>>],
                   body_links(bodies), occupied)

\* A mutant: the voxel is taken to collide when no link intersects the probe.
check_collision_negated(scene, voxel, pairs) ==
    ~\E i \in 1..Len(pairs) : pairwise_link_collision(scene, pairs[i], voxel)

\* The probe box is set at the voxel's pose and tested against every pair.
check_collision(scene, voxel, pairs) ==
    \E i \in 1..Len(pairs) : pairwise_link_collision(scene, pairs[i], voxel)

\* The loop of add_bodies from its i-th candidate on: the grid it leaves and
\* the voxels it ran the oracle on.
RECURSIVE add_bodies_loop(_, _, _, _, _)
add_bodies_loop(g, scene, d, i, probed) ==
    IF i > Len(d.keys) THEN [g |-> g, probed |-> probed, ret |-> "None"]
    ELSE LET voxel == d.keys[i]
         IN add_bodies_loop(
                IF check_collision(scene, voxel, d.val[voxel])
                THEN set_occupied(g, voxel).g ELSE g,
                scene, d, i + 1, Append(probed, voxel))

add_bodies(g, wfg, scene, bodies) ==
    add_bodies_loop(g, scene, get_affected(g, wfg, scene, bodies, FALSE), 1, <<>>)

\* The loop of remove_bodies; a ValueError of set_free ends it.
RECURSIVE remove_bodies_loop(_, _, _, _, _)
remove_bodies_loop(g, scene, d, i, probed) ==
    IF i > Len(d.keys) THEN [g |-> g, probed |-> probed, ret |-> "None"]
    ELSE LET voxel == d.keys[i]
             r == set_free(g, voxel)
         IN IF ~check_collision(scene, voxel, d.val[voxel])
            THEN remove_bodies_loop(g, scene, d, i + 1, Append(probed, voxel))
            ELSE IF r.ret = "ValueError"
            THEN [g |-> r.g, probed |-> Append(probed, voxel),
                  ret |-> "ValueError"]
            ELSE remove_bodies_loop(r.g, scene, d, i + 1, Append(probed, voxel))

remove_bodies(g, wfg, scene, bodies) ==
    remove_bodies_loop(g, scene, get_affected(g, wfg, scene, bodies, TRUE), 1, <<>>)

\* The boxes a link may have: from the centre of one voxel to the centre of
\* another, with any part of the voxels in between solid.
LinkStates ==
    {[aabb |-> b, solid |-> s] :
        b \in WorldBoxes, s \in SUBSET Voxels}

Scenes ==
    {sc \in [{<<b, -1>> : b \in Bodies} -> LinkStates] :
        \A p \in DOMAIN sc :
            sc[p].solid \subseteq Range(voxels_from_aabb(unit_pose, sc[p].aabb))}

BodyLists == {<<1>>, <<2>>, <<1, 2>>}

AddBodies ==
    /\ Idle
    /\ \E scene \in Scenes, bodies \in BodyLists :
        LET r == add_bodies(Self, world_from_grid, scene, bodies)
        IN /\ Becomes(r.g)
           /\ last' = [op |-> "add_bodies", bodies |-> bodies, scene |-> scene,
                       probed |-> r.probed, ret |-> r.ret, pre |-> Self]
           /\ UNCHANGED world_from_grid /\ NoHeightMap

RemoveBodies ==
    /\ Idle
    /\ \E scene \in Scenes, bodies \in BodyLists :
        LET r == remove_bodies(Self, world_from_grid, scene, bodies)
        IN /\ Becomes(r.g)
           /\ last' = [op |-> "remove_bodies", bodies |-> bodies,
                       scene |-> scene, probed |-> r.probed, ret |-> r.ret,
                       pre |-> Self]
           /\ UNCHANGED world_from_grid /\ NoHeightMap

NextBodies ==
    \/ SetOccupied
    \/ Copy
    \/ AddBodies
    \/ RemoveBodies
    \/ Return

SpecBodies == Init /\ [][NextBodies]_vars

-----------------------------------------------------------------------------
(* The box queries over the cache *)

\* (aabb.lower <= point) & (point <= aabb.upper), on every axis.
within_aabb(aabb, point) ==
    \A k \in 1..3 : aabb.lower[k] <= point[k] /\ point[k] <= aabb.upper[k]

\* The entries of a list at the positions where the mask holds.
RECURSIVE masked(_, _, _)
masked(s, mask, i) ==
    IF i > Len(s) THEN <<>>
    ELSE (IF mask[i] THEN <<s[i]>> ELSE <<>>) \o masked(s, mask, i + 1)

\* np.all((aabb.lower <= vis_points) & (vis_points <= aabb.upper), axis=1).
\* vis_points is np.array(self.occupied_points): with no entry its shape is
\* (0,), which does not broadcast against the three numbers of a corner, and
\* the comparison raises ValueError.
vis_idx(g, aabb) ==
    [i \in 1..Len(g.occupied_points) |-> within_aabb(aabb, g.occupied_points[i])]

occupied_voxels_from_aabb(g, aabb) ==
    IF Len(g.occupied_points) = 0
    THEN [raised |-> "ValueError", ret |-> <<>>]
    ELSE [raised |-> "None",
          ret |-> masked(g.occupied_voxel_points, vis_idx(g, aabb), 1)]

occupied_voxels_points_from_aabb(g, aabb) ==
    IF Len(g.occupied_points) = 0
    THEN [raised |-> "ValueError", ret |-> <<>>]
    ELSE [raised |-> "None",
          ret |-> masked(g.occupied_points, vis_idx(g, aabb), 1)]

\* The poses a grid is constructed with: the default one, and a shift of half
\* a cell along the first axis.
Poses == {unit_pose, <<Res \div 2, 0, 0>>}

\* Boxes of the world along the row of Voxels, their far corner in or on the
\* edge of the row.
QueryBoxes ==
    {[lower |-> <<x[1], 0, 0>>, upper |-> <<x[2], y, Res>>] :
        x \in {p \in (0..(Res * MaxI + Res)) \X (0..(Res * MaxI + Res)) :
                  p[1] <= p[2]},
        y \in {0, Res}}

OccupiedVoxelsFromAabb ==
    /\ Idle
    /\ \E aabb \in QueryBoxes :
           LET r == occupied_voxels_from_aabb(Self, aabb)
           IN last' = [op |-> "occupied_voxels_from_aabb", aabb |-> aabb,
                       raised |-> r.raised, ret |-> r.ret]
    /\ UNCHANGED <<value_from_voxel, occupied_points, occupied_voxel_points,
                   world_from_grid>>
    /\ NoHeightMap

OccupiedVoxelsPointsFromAabb ==
    /\ Idle
    /\ \E aabb \in QueryBoxes :
           LET r == occupied_voxels_points_from_aabb(Self, aabb)
           IN last' = [op |-> "occupied_voxels_points_from_aabb",
                       aabb |-> aabb, raised |-> r.raised, ret |-> r.ret]
    /\ UNCHANGED <<value_from_voxel, occupied_points, occupied_voxel_points,
                   world_from_grid>>
    /\ NoHeightMap

InitAabb ==
    /\ value_from_voxel = EmptyGrid.value_from_voxel
    /\ occupied_points = EmptyGrid.occupied_points
    /\ occupied_voxel_points = EmptyGrid.occupied_voxel_points
    /\ world_from_grid \in Poses
    /\ last = Call("idle")
    /\ height_map = <<>>
    /\ todo = {}

NextAabb ==
    \/ SetOccupied
    \/ SetFree
    \/ OccupiedVoxelsFromAabb
    \/ OccupiedVoxelsPointsFromAabb
    \/ Return

SpecAabb == InitAabb /\ [][NextAabb]_vars

-----------------------------------------------------------------------------
(* Clusters *)

\* A mutant: direction is not zeroed again for the next axis, and the later
\* neighbours are diagonal ones.
get_neighbors_direction_kept(index) ==
    << <<index[1] - 1, index[2], index[3]>>,
       <<index[1] + 1, index[2], index[3]>>,
       <<index[1] + 1, index[2] - 1, index[3]>>,
       <<index[1] + 1, index[2] + 1, index[3]>>,
       <<index[1] + 1, index[2] + 1, index[3] - 1>>,
       <<index[1] + 1, index[2] + 1, index[3] + 1>> >>

\* For each axis in turn, the neighbour at -1 and then the one at +1.
get_neighbors(index) ==
    << <<index[1] - 1, index[2], index[3]>>,
       <<index[1] + 1, index[2], index[3]>>,
       <<index[1], index[2] - 1, index[3]>>,
       <<index[1], index[2] + 1, index[3]>>,
       <<index[1], index[2], index[3] - 1>>,
       <<index[1], index[2], index[3] + 1>> >>

\* sorted(self.value_from_voxel)
occupied(g) == SortedSeq(DOMAIN g.value_from_voxel)

RECURSIVE dfs(_, _, _)
RECURSIVE dfs_neighbors(_, _, _, _)
\* dfs(current) of get_clusters: the cluster it returns and the set assigned
\* as it leaves it.
dfs(g, current, assigned) ==
    IF current \in assigned \/ ~is_occupied(g, current)
    THEN [cluster |-> <<>>, assigned |-> assigned]
    ELSE dfs_neighbors(g, get_neighbors(current), <<current>>,
                       assigned \cup {current})

\* for neighbor in self.get_neighbors(current): cluster.extend(dfs(neighbor))
dfs_neighbors(g, neighbors, cluster, assigned) ==
    IF neighbors = <<>> THEN [cluster |-> cluster, assigned |-> assigned]
    ELSE LET r == dfs(g, Head(neighbors), assigned)
         IN dfs_neighbors(g, Tail(neighbors), cluster \o r.cluster, r.assigned)

RECURSIVE clusters_from(_, _, _, _)
\* for voxel in voxels: the cluster of dfs(voxel) is kept when it is not empty.
clusters_from(g, voxels, clusters, assigned) ==
    IF voxels = <<>> THEN clusters
    ELSE LET r == dfs(g, Head(voxels), assigned)
         IN clusters_from(g, Tail(voxels),
                          IF r.cluster # <<>> THEN Append(clusters, r.cluster)
                          ELSE clusters,
                          r.assigned)

get_clusters(g, voxels) == clusters_from(g, voxels, <<>>, {})

\* The voxels the clusters are looked for in: a cube of two cells a side.
ClusterVoxels == (0..1) \X (0..1) \X (0..1)

\* Bound: the longest list of voxels passed to get_clusters.
MaxSeeds == 2

SeedLists ==
    UNION {[1..n -> ClusterVoxels] : n \in 0..MaxSeeds}

\* A grid whose occupied voxels were set one by one, in sorted order.
GridOf(S) ==
    Grid([v \in S |-> default],
         [i \in 1..Cardinality(S) |-> center_from_voxel(SortedSeq(S)[i])],
         SortedSeq(S))

InitGridOver(voxels) ==
    /\ \E S \in SUBSET voxels :
           /\ value_from_voxel = GridOf(S).value_from_voxel
           /\ occupied_points = GridOf(S).occupied_points
           /\ occupied_voxel_points = GridOf(S).occupied_voxel_points
    /\ world_from_grid = unit_pose
    /\ last = Call("idle")
    /\ height_map = <<>>
    /\ todo = {}

NoGridChange ==
    UNCHANGED <<value_from_voxel, occupied_points, occupied_voxel_points,
                world_from_grid>>

\* get_clusters(): voxels is None, and the sorted occupied voxels are taken.
GetClustersOfOccupied ==
    /\ Idle
    /\ last' = [op |-> "get_clusters", voxels |-> occupied(Self),
                ret |-> get_clusters(Self, occupied(Self))]
    /\ NoGridChange /\ NoHeightMap

\* get_clusters(voxels), with a list of the caller's.
GetClustersOfList ==
    /\ Idle
    /\ \E voxels \in SeedLists :
           last' = [op |-> "get_clusters", voxels |-> voxels,
                    ret |-> get_clusters(Self, voxels)]
    /\ NoGridChange /\ NoHeightMap

InitClusters == InitGridOver(ClusterVoxels)

NextClusters ==
    \/ GetClustersOfOccupied
    \/ GetClustersOfList
    \/ Return

SpecClusters == InitClusters /\ [][NextClusters]_vars

-----------------------------------------------------------------------------
(* Intervals *)

RECURSIVE SortedInts(_)
\* sorted(S) for a finite set S of integers.
SortedInts(S) ==
    IF S = {} THEN <<>>
    ELSE <<SetMin(S)>> \o SortedInts(S \ {SetMin(S)})

RECURSIVE voxel_heights_from(_, _)
\* for i, j, k in self.occupied: voxel_heights.setdefault((i, j), set()).add(k)
voxel_heights_from(voxels, d) ==
    IF voxels = <<>> THEN d
    ELSE LET v == Head(voxels)
             col == <<v[1], v[2]>>
         IN voxel_heights_from(
                Tail(voxels),
                IF col \in DOMAIN d.val
                THEN [d EXCEPT !.val[col] = @ \cup {v[3]}]
                ELSE [keys |-> Append(d.keys, col),
                      val |-> d.val @@ (col :> {v[3]})])

RECURSIVE runs_without_last(_, _, _, _, _)
\* A mutant: the interval still open when the heights run out is not added.
runs_without_last(col, heights, start, lst, intervals) ==
    IF heights = <<>>
    THEN intervals
    ELSE IF Head(heights) = lst + 1
    THEN runs_without_last(col, Tail(heights), start, Head(heights), intervals)
    ELSE runs_without_last(col, Tail(heights), Head(heights), Head(heights),
                           Append(intervals, <<col[1], col[2], <<start, lst>>>>))

RECURSIVE runs(_, _, _, _, _)
\* The loop over heights[1:] of one column, and the append that follows it.
runs(col, heights, start, lst, intervals) ==
    IF heights = <<>>
    THEN Append(intervals, <<col[1], col[2], <<start, lst>>>>)
    ELSE IF Head(heights) = lst + 1
    THEN runs(col, Tail(heights), start, Head(heights), intervals)
    ELSE runs(col, Tail(heights), Head(heights), Head(heights),
              Append(intervals, <<col[1], col[2], <<start, lst>>>>))

RECURSIVE intervals_from(_, _, _)
\* for i, j in voxel_heights: the runs of the column's sorted heights.
intervals_from(d, n, intervals) ==
    IF n > Len(d.keys) THEN intervals
    ELSE LET heights == SortedInts(d.val[d.keys[n]])
         IN intervals_from(
                d, n + 1,
                runs(d.keys[n], Tail(heights), Head(heights), Head(heights),
                     intervals))

create_intervals(g) ==
    intervals_from(
        voxel_heights_from(occupied(g), [keys |-> <<>>, val |-> <<>>]),
        1, <<>>)

\* Bound: the columns of SpecIntervals are the heights 0..MaxK.
MaxK == 4

IntervalVoxels == {<<i, 0, k>> : i \in 0..1, k \in 0..MaxK}

CreateIntervals ==
    /\ Idle
    /\ last' = [op |-> "create_intervals", ret |-> create_intervals(Self)]
    /\ NoGridChange /\ NoHeightMap

InitIntervals == InitGridOver(IntervalVoxels)

NextIntervals ==
    \/ CreateIntervals
    \/ Return

SpecIntervals == InitIntervals /\ [][NextIntervals]_vars

-----------------------------------------------------------------------------
(* Ray tracing *)

\* The attributes of a VoxelGrid: the methods of the class and the fields
\* __init__ assigns.
Attributes ==
    {"__init__", "clear_cloud", "get_frontier", "occupied", "__iter__",
     "__len__", "copy", "to_grid", "to_world", "voxel_from_point",
     "voxels_from_aabb", "occupied_voxels_from_aabb",
     "occupied_voxels_points_from_aabb", "lower_from_voxel",
     "center_from_voxel", "upper_from_voxel", "aabb_from_voxel", "ray_trace",
     "pose_from_voxel", "vertices_from_voxel", "contains", "get_value",
     "set_value", "remove_value", "is_occupied", "set_occupied", "set_free",
     "get_neighbors", "get_clusters", "create_box", "get_affected",
     "check_collision", "add_point", "add_aabb", "add_body", "add_bodies",
     "remove_body", "remove_bodies", "draw_origin", "draw_voxel",
     "draw_voxel_boxes", "draw_voxel_centers", "create_voxel_bodies1",
     "create_voxel_bodies2", "create_voxel_bodies3", "create_voxel_bodies",
     "create_intervals", "draw_intervals", "draw_vertical_lines",
     "project2d", "create_height_map",
     "resolutions", "default", "value_from_voxel", "world_from_grid", "aabb",
     "color", "occupied_points", "occupied_voxel_points", "cloud_vis",
     "cloud_handles"}

\* self.name: the attribute, or AttributeError when the grid has none of
\* that name.
getattr(name) ==
    IF name \in Attributes THEN "bound method" ELSE "AttributeError"

\* ray_trace(start_cell, goal_point). An occupied start returns ([], False).
\* Otherwise the next statement evaluates self.get_index, and the ones after
\* it self.get_center, self.get_min and self.get_max: the first of them that
\* is no attribute of the grid ends the call with AttributeError.
ray_trace(g, start_cell, goal_point) ==
    IF is_occupied(g, start_cell)
    THEN [raised |-> "None", path |-> <<>>, success |-> "False"]
    ELSE IF \E name \in {"get_index", "get_center", "get_min", "get_max"} :
                getattr(name) = "AttributeError"
         THEN [raised |-> "AttributeError", path |-> <<>>,
               success |-> "None"]
         ELSE [raised |-> "None", path |-> <<>>, success |-> "None"]

\* The cells rays are traced in: a square of two cells a side, one cell high.
RayVoxels == (0..1) \X (0..1) \X {0}

\* The goals: the corners, edge midpoints and centres of those cells, at the
\* height of the centres.
RayGoals == {<<x, y, Res \div 2>> : x \in 0..(2 * Res), y \in 0..(2 * Res)}

RayTrace ==
    /\ Idle
    /\ \E start_cell \in RayVoxels, goal_point \in RayGoals :
           LET r == ray_trace(Self, start_cell, goal_point)
           IN last' = [op |-> "ray_trace", start_cell |-> start_cell,
                       goal_point |-> goal_point, raised |-> r.raised,
                       path |-> r.path, success |-> r.success]
    /\ NoGridChange /\ NoHeightMap

InitRay == InitGridOver(RayVoxels)

NextRay ==
    \/ RayTrace
    \/ Return

SpecRay == InitRay /\ [][NextRay]_vars

-----------------------------------------------------------------------------
(* The height map *)

\* min_z, max_z = 0.0, 2.0. Lengths are counted in units of which Res make a
\* cell; for the height map a cell is 1.0 a side, a unit is 0.5, and 2.0 is
\* four units.
min_z == 0

max_z == 4

clip(x, lo, hi) == IF x < lo THEN lo ELSE IF x > hi THEN hi ELSE x

\* The tallest occupied voxel of every column.
project2d(g) ==
    LET occ == Range(occupied(g))
    IN {<<c[1], c[2], SetMax({v[3] : v \in {u \in occ : u[1] = c[1]
                                                       /\ u[2] = c[2]}})>> :
           c \in {<<v[1], v[2]>> : v \in occ}}

\* plane_lower = get_point(plane) - plane_extent / 2.0, plane_extent being
\* plane_size * [1, 1, 0].
plane_lower_of(plane, plane_size) ==
    <<plane[1] - plane_size \div 2, plane[2] - plane_size \div 2, plane[3]>>

\* np.floor(image_size * (point - plane_lower)[:2] / plane_extent[:2]), as
\* integers: \div rounds down.
pixel_from_point(width, height, plane_lower, plane_size, point) ==
    <<(width * (point[1] - plane_lower[1])) \div plane_size,
      (height * (point[2] - plane_lower[2])) \div plane_size>>

\* np.zeros(image_size): width rows of height zeros, indexed [r, c].
zeros(width, height) ==
    [px \in (0..(width - 1)) \X (0..(height - 1)) |-> 0]

\* (clip(voxel_aabb[1][2], min_z, max_z) - min_z) / max_z, counted in units
\* of 1 / max_z.
scaled_z_of(voxel) == clip(upper_from_voxel(voxel)[3], min_z, max_z) - min_z

\* The pixel rectangle (x1, y1), (x2, y2) of the voxel's footprint.
footprint(p, voxel) ==
    LET lo == pixel_from_point(p.width, p.height, p.plane_lower,
                               p.plane_size, lower_from_voxel(voxel))
        hi == pixel_from_point(p.width, p.height, p.plane_lower,
                               p.plane_size, upper_from_voxel(voxel))
    IN [x1 |-> lo[1], y1 |-> lo[2], x2 |-> hi[1], y2 |-> hi[2]]

\* (x1 < 0) or (width <= x2) or (y1 < 0) or (height <= y2): continue
discarded(p, voxel) ==
    LET f == footprint(p, voxel)
    IN f.x1 < 0 \/ p.width <= f.x2 \/ f.y1 < 0 \/ p.height <= f.y2

\* A mutant: the pixel takes the height painted last.
painted_overwritten(old, scaled_z) == scaled_z

\* max(height_map[r, c], scaled_z)
painted(old, scaled_z) == IF old >= scaled_z THEN old ELSE scaled_z

RECURSIVE paint_pixels(_, _, _, _, _, _)
\* for c in range(x1, x2 + 1): for y in range(y1, y2 + 1), from (c, y) on.
\* r and c are never negative here; an index beyond the array's shape, which
\* is (width, height), raises IndexError and ends the call.
paint_pixels(hm, p, f, scaled_z, c, y) ==
    IF c > f.x2 THEN [height_map |-> hm, raised |-> "None"]
    ELSE IF y > f.y2 THEN paint_pixels(hm, p, f, scaled_z, c + 1, f.y1)
    ELSE LET r == p.height - y - 1
         IN IF <<r, c>> \notin DOMAIN hm
            THEN [height_map |-> hm, raised |-> "IndexError"]
            ELSE paint_pixels(
                     [hm EXCEPT ![<<r, c>>] = painted(@, scaled_z)],
                     p, f, scaled_z, c, y + 1)

\* One pass of the loop over self.project2d().
paint_voxel(hm, p, voxel) ==
    IF discarded(p, voxel)
    THEN [height_map |-> hm, raised |-> "None"]
    ELSE LET f == footprint(p, voxel)
         IN paint_pixels(hm, p, f, scaled_z_of(voxel), f.x1, f.y1)

\* Bound: the images are of 2..MaxPixels pixels a side.
MaxPixels == 3

ImageSizes == 2..MaxPixels

\* get_point(plane): where the plane's centre is.
PlanePoints == {<<Res, Res, 0>>, <<Res + 1, Res + 1, 0>>}

PlaneSizes == {2 * Res, 3 * Res}

\* Three columns that meet in a corner, of three cells each.
HeightVoxels ==
    {<<c[1], c[2], k>> : c \in {<<0, 0>>, <<1, 0>>, <<0, 1>>}, k \in 0..2}

\* create_height_map, up to its loop.
CreateHeightMap ==
    /\ Idle
    /\ \E width \in ImageSizes, height \in ImageSizes,
          plane \in PlanePoints, plane_size \in PlaneSizes :
           /\ last' = [op |-> "create_height_map",
                       width |-> width, height |-> height,
                       plane_lower |-> plane_lower_of(plane, plane_size),
                       plane_size |-> plane_size, raised |-> "None",
                       voxel |-> <<>>, before |-> zeros(width, height)]
           /\ height_map' = zeros(width, height)
    /\ todo' = project2d(Self)
    /\ NoGridChange

\* One pass of the loop: a set is gone through in no order one can tell.
PaintVoxel ==
    /\ last.op = "create_height_map"
    /\ last.raised = "None"
    /\ \E voxel \in todo :
           LET r == paint_voxel(height_map, last, voxel)
           IN /\ height_map' = r.height_map
              /\ todo' = todo \ {voxel}
              /\ last' = [last EXCEPT !.raised = r.raised, !.voxel = voxel,
                                      !.before = height_map]
    /\ NoGridChange

\* return height_map, or the IndexError leaves the call.
ReturnHeightMap ==
    /\ last.op = "create_height_map"
    /\ todo = {} \/ last.raised # "None"
    /\ last' = Call("idle")
    /\ height_map' = <<>>
    /\ todo' = {}
    /\ NoGridChange

InitHeight == InitGridOver(HeightVoxels)

NextHeight ==
    \/ CreateHeightMap
    \/ PaintVoxel
    \/ ReturnHeightMap

SpecHeight == InitHeight /\ [][NextHeight]_vars

-----------------------------------------------------------------------------
(* The collision oracle fails *)

\* The dict with its first n - 1 keys only: what the loop over
\* check_voxels.items() has gone through when its n-th pass raises.
before_pass(d, n) == [d EXCEPT !.keys = SubSeq(d.keys, 1, n - 1)]

\* add_bodies when pairwise_link_collision raises pybullet.error in the n-th
\* pass of the loop: nothing catches it, the loop ends there and the error
\* leaves add_bodies.
add_bodies_oracle_fails(g, wfg, scene, bodies, n) ==
    LET d == get_affected(g, wfg, scene, bodies, FALSE)
        r == add_bodies_loop(g, scene, before_pass(d, n), 1, <<>>)
    IN [g |-> r.g, probed |-> Append(r.probed, d.keys[n]),
        ret |-> "pybullet.error"]

\* remove_bodies likewise; a ValueError of set_free in an earlier pass has
\* ended the loop before the oracle is asked.
remove_bodies_oracle_fails(g, wfg, scene, bodies, n) ==
    LET d == get_affected(g, wfg, scene, bodies, TRUE)
        r == remove_bodies_loop(g, scene, before_pass(d, n), 1, <<>>)
    IN IF r.ret = "ValueError" THEN r
       ELSE [g |-> r.g, probed |-> Append(r.probed, d.keys[n]),
             ret |-> "pybullet.error"]

AddBodiesOracleFails ==
    /\ Idle
    /\ \E scene \in Scenes, bodies \in BodyLists :
        \E n \in 1..Len(get_affected(Self, world_from_grid, scene, bodies,
                                     FALSE).keys) :
            LET r == add_bodies_oracle_fails(Self, world_from_grid, scene,
                                             bodies, n)
            IN /\ Becomes(r.g)
               /\ last' = [op |-> "add_bodies", bodies |-> bodies,
                           scene |-> scene, probed |-> r.probed,
                           ret |-> r.ret, pre |-> Self]
               /\ UNCHANGED world_from_grid /\ NoHeightMap

RemoveBodiesOracleFails ==
    /\ Idle
    /\ \E scene \in Scenes, bodies \in BodyLists :
        \E n \in 1..Len(get_affected(Self, world_from_grid, scene, bodies,
                                     TRUE).keys) :
            LET r == remove_bodies_oracle_fails(Self, world_from_grid, scene,
                                                bodies, n)
            IN /\ Becomes(r.g)
               /\ last' = [op |-> "remove_bodies", bodies |-> bodies,
                           scene |-> scene, probed |-> r.probed,
                           ret |-> r.ret, pre |-> Self]
               /\ UNCHANGED world_from_grid /\ NoHeightMap

NextOracleFails ==
    \/ SetValue
    \/ SetOccupied
    \/ SetFree
    \/ AddBodies
    \/ RemoveBodies
    \/ AddBodiesOracleFails
    \/ RemoveBodiesOracleFails
    \/ Return

SpecOracleFails == Init /\ [][NextOracleFails]_vars

-----------------------------------------------------------------------------
(* Reading the map *)

\* A mutant: a voxel that is not in the map reads as the default value.
get_value_or_default(g, voxel, optimized) ==
    [raised |-> "None",
     value |-> IF contains(g, voxel) THEN g.value_from_voxel[voxel]
               ELSE default]

\* get_value(voxel): the assertion fails on a voxel that is not in the map;
\* with assertions compiled out (python -O) the subscript raises KeyError.
get_value(g, voxel, optimized) ==
    IF ~contains(g, voxel)
    THEN [raised |-> IF optimized THEN "KeyError" ELSE "AssertionError",
          value |-> default]
    ELSE [raised |-> "None", value |-> g.value_from_voxel[voxel]]

GetValue ==
    /\ Idle
    /\ \E voxel \in Voxels, optimized \in BOOLEAN :
           LET r == get_value(Self, voxel, optimized)
           IN last' = [op |-> "get_value", voxel |-> voxel,
                       raised |-> r.raised, value |-> r.value, pre |-> Self]
    /\ NoGridChange /\ NoHeightMap

\* set_value, the call kept with its arguments.
SetValueOf ==
    \E voxel \in Voxels, value \in Values :
        /\ Becomes(set_value(Self, voxel, value))
        /\ last' = [op |-> "set_value", voxel |-> voxel, value |-> value,
                    pre |-> Self]
        /\ UNCHANGED world_from_grid /\ NoHeightMap

NextValues ==
    \/ SetValueOf
    \/ SetOccupied
    \/ SetFree
    \/ GetValue
    \/ Return

SpecValues == Init /\ [][NextValues]_vars

-----------------------------------------------------------------------------
(* Claims about the occupancy map and its caches, under Spec *)

\* The two cache lists agree entry by entry: the centre at i is the centre of
\* the voxel at i.
Lockstep(g) ==
    /\ Len(g.occupied_points) = Len(g.occupied_voxel_points)
    /\ \A i \in 1..Len(g.occupied_points) :
           g.occupied_points[i] = center_from_voxel(g.occupied_voxel_points[i])

\* C1: after every grid operation, and on a grid copy() returned, the two
\* cache lists have the same length, agree entry by entry, and are as long as
\* the occupancy map has keys.
C1_CachesMirrorMap ==
    /\ Lockstep(Self)
    /\ Len(occupied_points) = Cardinality(DOMAIN value_from_voxel)

\* C2, as claimed: set_occupied(v) returns true exactly when v was no key of
\* the map, afterwards v is a key and the default value is stored for it, and
\* a second set_occupied(v) returns false and changes nothing.
C2_SetOccupiedStoresDefault ==
    last.op = "set_occupied" =>
        /\ last.ret = "True" <=> ~contains(last.pre, last.voxel)
        /\ contains(Self, last.voxel)
        /\ value_from_voxel[last.voxel] = default
        /\ LET again == set_occupied(Self, last.voxel)
           IN again.ret = "False" /\ again.g = Self

\* C2, amended: set_occupied(v) returns true exactly when v was no key of the
\* map; afterwards v is a key, with the default value stored when the call
\* returned true and with the value it already had, the grid unchanged, when
\* the call returned false; a second set_occupied(v) returns false and
\* changes neither the map nor either cache list.
C2_SetOccupiedIdempotent ==
    last.op = "set_occupied" =>
        /\ last.ret \in {"True", "False"}
        /\ last.ret = "True" <=> ~contains(last.pre, last.voxel)
        /\ contains(Self, last.voxel)
        /\ last.ret = "True" =>
               /\ value_from_voxel[last.voxel] = default
               /\ \A v \in DOMAIN last.pre.value_from_voxel :
                      /\ contains(Self, v)
                      /\ value_from_voxel[v] = last.pre.value_from_voxel[v]
               /\ DOMAIN value_from_voxel =
                      DOMAIN last.pre.value_from_voxel \cup {last.voxel}
               /\ occupied_points = Append(last.pre.occupied_points,
                                           center_from_voxel(last.voxel))
               /\ occupied_voxel_points =
                      Append(last.pre.occupied_voxel_points, last.voxel)
        /\ last.ret = "False" => Self = last.pre
        /\ LET again == set_occupied(Self, last.voxel)
           IN again.ret = "False" /\ again.g = Self

\* A second set_occupied(v) has returned false on a voxel whose stored value
\* is not the default one, with v in the caches.
C2_Witness ==
    /\ last.op = "set_occupied"
    /\ last.ret = "False"
    /\ value_from_voxel[last.voxel] # default
    /\ last.voxel \in Range(occupied_voxel_points)

\* C3: set_free(v) on an unoccupied v returns false and changes nothing; on
\* an occupied v it returns true, removes v from the map and removes v's own
\* entry, at one position, from both cache lists, every other map entry and
\* cache entry staying in place and in order.
C3_SetFreeRemovesOwnEntry ==
    last.op = "set_free" =>
        IF ~contains(last.pre, last.voxel)
        THEN last.ret = "False" /\ Self = last.pre
        ELSE /\ last.ret = "True"
             /\ value_from_voxel = remove_value(last.pre, last.voxel).value_from_voxel
             /\ \E i \in 1..Len(last.pre.occupied_voxel_points) :
                    /\ last.pre.occupied_voxel_points[i] = last.voxel
                    /\ last.pre.occupied_points[i] = center_from_voxel(last.voxel)
                    /\ occupied_points = DropAt(last.pre.occupied_points, i)
                    /\ occupied_voxel_points =
                           DropAt(last.pre.occupied_voxel_points, i)

-----------------------------------------------------------------------------
(* Claims about add_bodies and remove_bodies, under SpecBodies *)

\* The voxels inside the voxelized box of some link of some body of the call.
InSomeBox(v) ==
    \E p \in Range(body_links(last.bodies)) :
        v \in Range(voxels_from_aabb(world_from_grid, last.scene[p].aabb))

\* The oracle reports that the probe at v intersects one of the links whose
\* box holds v.
OracleHit(v) ==
    \E p \in Range(body_links(last.bodies)) :
        /\ v \in Range(voxels_from_aabb(world_from_grid, last.scene[p].aabb))
        /\ v \in last.scene[p].solid

WasOccupied(v) == contains(last.pre, v)

Kept(v) ==
    /\ WasOccupied(v) = contains(Self, v)
    /\ WasOccupied(v) => value_from_voxel[v] = last.pre.value_from_voxel[v]

AllVoxels == Voxels \cup DOMAIN value_from_voxel \cup DOMAIN last.pre.value_from_voxel

\* C4: after add_bodies a voxel is occupied iff it was occupied before or it
\* was an unoccupied candidate the oracle reported a hit for; no voxel is
\* freed, none is occupied without a hit, and the oracle is run on the
\* unoccupied candidates only.
C4_AddBodiesOccupiesHits ==
    last.op = "add_bodies" =>
        /\ last.ret = "None"
        /\ \A v \in AllVoxels :
               contains(Self, v) <=>
                   \/ WasOccupied(v)
                   \/ ~WasOccupied(v) /\ InSomeBox(v) /\ OracleHit(v)
        /\ \A v \in DOMAIN last.pre.value_from_voxel : Kept(v)
        /\ \A v \in Range(last.probed) : ~WasOccupied(v) /\ InSomeBox(v)
        /\ \A v \in AllVoxels :
               ~WasOccupied(v) /\ InSomeBox(v) => v \in Range(last.probed)

\* add_bodies has occupied a candidate the oracle reported a hit for and has
\* left free a candidate it reported none for.
C4_Witness ==
    /\ last.op = "add_bodies"
    /\ \E v \in Voxels :
           ~WasOccupied(v) /\ InSomeBox(v) /\ OracleHit(v) /\ contains(Self, v)
    /\ \E v \in Voxels :
           ~WasOccupied(v) /\ InSomeBox(v) /\ ~OracleHit(v) /\ ~contains(Self, v)

\* C5, as claimed: remove_bodies runs the oracle on occupied candidates only,
\* frees a voxel only if the probe at it does not intersect, keeps a
\* candidate whose probe intersects, and changes no voxel outside the
\* candidates.
C5_RemoveBodiesFreesMisses ==
    last.op = "remove_bodies" =>
        /\ \A v \in Range(last.probed) : WasOccupied(v) /\ InSomeBox(v)
        /\ \A v \in AllVoxels :
               WasOccupied(v) /\ ~contains(Self, v) =>
                   InSomeBox(v) /\ ~OracleHit(v)
        /\ \A v \in AllVoxels :
               WasOccupied(v) /\ InSomeBox(v) /\ OracleHit(v) => Kept(v)
        /\ \A v \in AllVoxels : ~(WasOccupied(v) /\ InSomeBox(v)) => Kept(v)

\* C5, amended: remove_bodies runs the oracle on occupied candidates only,
\* frees a voxel only if the oracle reports that the probe at it intersects
\* one of the given links whose box holds it, keeps a candidate whose probe
\* does not intersect, and changes no voxel outside the candidates, in the
\* map or in the caches.
C5_RemoveBodiesFreesHits ==
    last.op = "remove_bodies" =>
        /\ \A v \in Range(last.probed) : WasOccupied(v) /\ InSomeBox(v)
        /\ \A v \in AllVoxels :
               WasOccupied(v) /\ ~contains(Self, v) =>
                   InSomeBox(v) /\ OracleHit(v)
        /\ \A v \in AllVoxels :
               WasOccupied(v) /\ InSomeBox(v) /\ ~OracleHit(v) => Kept(v)
        /\ \A v \in AllVoxels : ~(WasOccupied(v) /\ InSomeBox(v)) => Kept(v)
        /\ LET Outside(v) == ~(WasOccupied(v) /\ InSomeBox(v))
               Center(p) == \A v \in AllVoxels :
                                center_from_voxel(v) = p => Outside(v)
           IN /\ SelectSeq(occupied_voxel_points, Outside) =
                     SelectSeq(last.pre.occupied_voxel_points, Outside)
              /\ SelectSeq(occupied_points, Center) =
                     SelectSeq(last.pre.occupied_points, Center)

\* remove_bodies has freed a candidate the oracle reported a hit for and has
\* kept a candidate it reported none for.
C5_Witness ==
    /\ last.op = "remove_bodies"
    /\ last.ret = "None"
    /\ \E v \in Voxels :
           WasOccupied(v) /\ InSomeBox(v) /\ OracleHit(v) /\ ~contains(Self, v)
    /\ \E v \in Voxels :
           WasOccupied(v) /\ InSomeBox(v) /\ ~OracleHit(v) /\ contains(Self, v)

-----------------------------------------------------------------------------
(* Claims about the box queries, under SpecAabb *)

\* The occupied voxels whose centre, in the world frame, lies in the box.
OccupiedInBox(aabb) ==
    {v \in DOMAIN value_from_voxel :
        within_aabb(aabb, to_world(world_from_grid, center_from_voxel(v)))}

\* C10: in every grid state, with any pose and with no occupied voxel too,
\* occupied_voxels_from_aabb returns exactly the occupied voxels whose world
\* centre lies in the box, bounds included, and
\* occupied_voxels_points_from_aabb exactly their world centres.
C10_BoxQueryExact ==
    /\ last.op = "occupied_voxels_from_aabb" =>
           /\ last.raised = "None"
           /\ Range(last.ret) = OccupiedInBox(last.aabb)
           /\ Len(last.ret) = Cardinality(OccupiedInBox(last.aabb))
    /\ last.op = "occupied_voxels_points_from_aabb" =>
           /\ last.raised = "None"
           /\ Range(last.ret) =
                  {to_world(world_from_grid, center_from_voxel(v)) :
                      v \in OccupiedInBox(last.aabb)}
           /\ Len(last.ret) = Cardinality(OccupiedInBox(last.aabb))

-----------------------------------------------------------------------------
(* Claims about get_clusters, under SpecClusters *)

\* Two voxels share a face.
FaceAdjacent(u, w) ==
    LET Abs(x) == IF x < 0 THEN -x ELSE x
    IN Abs(u[1] - w[1]) + Abs(u[2] - w[2]) + Abs(u[3] - w[3]) = 1

RECURSIVE Joined(_, _)
\* The voxels of S a chain of face-adjacent voxels of S joins to one of C.
Joined(S, C) ==
    LET more == C \cup {u \in S : \E w \in C : FaceAdjacent(u, w)}
    IN IF more = C THEN C ELSE Joined(S, more)

\* The clusters are pairwise disjoint and none holds a voxel twice.
Disjoint(clusters) ==
    /\ \A i \in 1..Len(clusters) :
           Cardinality(Range(clusters[i])) = Len(clusters[i])
    /\ \A i, j \in 1..Len(clusters) :
           i # j => Range(clusters[i]) \cap Range(clusters[j]) = {}

\* Each cluster is not empty and is a whole component of S.
Components(clusters, S) ==
    \A i \in 1..Len(clusters) :
        /\ clusters[i] # <<>>
        /\ \A v \in Range(clusters[i]) : Range(clusters[i]) = Joined(S, {v})

\* C6, as claimed: for the occupied set and for any list passed, the clusters
\* are a partition of the input voxels into the maximal components of
\* 6-connectivity.
C6_ClustersPartitionInput ==
    last.op = "get_clusters" =>
        /\ Disjoint(last.ret)
        /\ UNION {Range(last.ret[i]) : i \in 1..Len(last.ret)} =
               Range(last.voxels)
        /\ Components(last.ret, Range(last.voxels))

\* C6, amended: the clusters are pairwise disjoint, hold no voxel twice, and
\* are the maximal components, under 6-connectivity, of the occupied voxels;
\* their union is the set of occupied voxels joined to an occupied voxel of
\* the input, which is the set of input voxels when the input is the occupied
\* set (the default).
C6_ClustersAreOccupiedComponents ==
    last.op = "get_clusters" =>
        LET occ == DOMAIN value_from_voxel
            all == UNION {Range(last.ret[i]) : i \in 1..Len(last.ret)}
        IN /\ Disjoint(last.ret)
           /\ Components(last.ret, occ)
           /\ all = Joined(occ, Range(last.voxels) \cap occ)
           /\ Range(last.voxels) = occ => all = Range(last.voxels)

\* get_clusters has returned two clusters, one of two voxels that share a
\* face and one of a voxel that touches it along an edge only.
C6_Witness ==
    /\ last.op = "get_clusters"
    /\ Len(last.ret) = 2
    /\ \E i, j \in 1..2 :
           /\ Len(last.ret[i]) = 2
           /\ Len(last.ret[j]) = 1
           /\ \E u \in Range(last.ret[i]) :
                  LET w == last.ret[j][1]
                  IN (u[1] - w[1]) * (u[1] - w[1])
                     + (u[2] - w[2]) * (u[2] - w[2])
                     + (u[3] - w[3]) * (u[3] - w[3]) = 2

-----------------------------------------------------------------------------
(* Claims about create_intervals, under SpecIntervals *)

\* The intervals emitted for column (i, j), in the order they are emitted.
IntervalsOf(ret, i, j) ==
    LET OfColumn(r) == r[1] = i /\ r[2] = j
        rs == SelectSeq(ret, OfColumn)
    IN [n \in 1..Len(rs) |-> rs[n][3]]

\* C8: for every column with an occupied voxel create_intervals emits the
\* maximal runs of consecutive occupied heights as closed intervals: every
\* occupied voxel is in exactly one interval of its column, no interval holds
\* an unoccupied height, the intervals of a column are disjoint, not adjacent
\* and in ascending order, and no interval is emitted for another column.
C8_IntervalsAreMaximalRuns ==
    last.op = "create_intervals" =>
        LET occ == DOMAIN value_from_voxel
        IN /\ \A n \in 1..Len(last.ret) :
                  \E v \in occ : v[1] = last.ret[n][1] /\ v[2] = last.ret[n][2]
           /\ \A c \in {<<v[1], v[2]>> : v \in occ} :
                  LET ivs == IntervalsOf(last.ret, c[1], c[2])
                      Occ(k) == <<c[1], c[2], k>> \in occ
                  IN /\ \A n \in 1..Len(ivs) :
                            /\ ivs[n][1] <= ivs[n][2]
                            /\ \A k \in ivs[n][1]..ivs[n][2] : Occ(k)
                            /\ ~Occ(ivs[n][1] - 1)
                            /\ ~Occ(ivs[n][2] + 1)
                     /\ \A n \in 1..(Len(ivs) - 1) :
                            ivs[n][2] + 1 < ivs[n + 1][1]
                     /\ \A v \in occ :
                            v[1] = c[1] /\ v[2] = c[2] =>
                                Cardinality({n \in 1..Len(ivs) :
                                    ivs[n][1] <= v[3] /\ v[3] <= ivs[n][2]}) = 1

\* create_intervals has emitted, for one column, a run of several heights, a
\* gap, and a run of one height.
C8_Witness ==
    /\ last.op = "create_intervals"
    /\ \E i \in 0..1 :
           LET ivs == IntervalsOf(last.ret, i, 0)
           IN /\ Len(ivs) = 2
              /\ ivs[1][1] < ivs[1][2]
              /\ ivs[2][1] = ivs[2][2]

-----------------------------------------------------------------------------
(* Claims about ray_trace, under SpecRay *)

\* The straight line from s to g meets the cell, its faces, edges and corners
\* included (Touches) or not (Crosses): on every axis the line is within the
\* cell for the fractions lo/den .. hi/den of its length, and these ranges
\* and 0 .. 1 have a fraction in common.
Slab(s, g, voxel, k) ==
    LET d == g[k] - s[k]
        lower == lower_from_voxel(voxel)[k]
        upper == upper_from_voxel(voxel)[k]
    IN IF d > 0 THEN [lo |-> lower - s[k], hi |-> upper - s[k], den |-> d]
       ELSE IF d < 0
            THEN [lo |-> s[k] - upper, hi |-> s[k] - lower, den |-> -d]
            ELSE [lo |-> IF lower <= s[k] /\ s[k] <= upper THEN 0 ELSE 2,
                  hi |-> IF lower <= s[k] /\ s[k] <= upper THEN 1 ELSE -1,
                  den |-> 1]

Touches(s, g, voxel) ==
    /\ \A k \in 1..3 :
           LET a == Slab(s, g, voxel, k)
           IN a.lo <= a.den /\ a.hi >= 0
    /\ \A k, l \in 1..3 :
           LET a == Slab(s, g, voxel, k)
               b == Slab(s, g, voxel, l)
           IN a.lo * b.den <= b.hi * a.den

\* The line has a point inside the cell or on its faces that is not only a
\* point of an edge or corner: it is between the cell's faces on the axes it
\* runs along, for more than one point.
Crosses(s, g, voxel) ==
    /\ Touches(s, g, voxel)
    /\ \A k, l \in 1..3 :
           LET a == Slab(s, g, voxel, k)
               b == Slab(s, g, voxel, l)
           IN (g[k] # s[k] /\ g[l] # s[l]) => a.lo * b.den < b.hi * a.den
    /\ \A k \in 1..3 :
           LET a == Slab(s, g, voxel, k)
           IN g[k] # s[k] => a.lo < a.den /\ a.hi > 0

\* C7: for every unoccupied start voxel and every goal point, rays along an
\* axis and through edges and corners included, ray_trace returns; with no
\* occupied cell on the line from the start's centre to the goal it returns
\* success and the path leads to the goal voxel, with an occupied cell on the
\* line it returns failure, and the path never holds an occupied cell.
C7_RayTraceSeesGoal ==
    (last.op = "ray_trace"
     /\ last.start_cell \notin DOMAIN value_from_voxel) =>
        LET s == center_from_voxel(last.start_cell)
            g == last.goal_point
            occ == DOMAIN value_from_voxel
        IN /\ last.raised = "None"
           /\ (\A v \in occ : ~Touches(s, g, v)) => last.success = "True"
           /\ (\E v \in occ : Crosses(s, g, v)) => last.success = "False"
           /\ \A n \in 1..Len(last.path) : last.path[n] \notin occ

-----------------------------------------------------------------------------
(* Claims about create_height_map, under SpecHeight *)

\* The entries of the height field that are not discarded and whose
\* footprint covers the pixel of row r and column c.
Covering(r, c) ==
    {e \in project2d(Self) :
        /\ ~discarded(last, e)
        /\ footprint(last, e).x1 <= c /\ c <= footprint(last, e).x2
        /\ footprint(last, e).y1 <= last.height - r - 1
        /\ last.height - r - 1 <= footprint(last, e).y2}

\* C9: when create_height_map returns its array, every pixel is the maximum
\* of the normalized heights of the entries that are not discarded and cover
\* it, 0 with none, in whichever order the entries were painted; and while
\* it paints, no pixel gets lower.
C9_PixelsAreMaxima ==
    last.op = "create_height_map" =>
        /\ \A px \in DOMAIN height_map : height_map[px] >= last.before[px]
        /\ (todo = {} /\ last.raised = "None") =>
               \A px \in DOMAIN height_map :
                   height_map[px] =
                       SetMax({scaled_z_of(e) : e \in Covering(px[1], px[2])}
                              \cup {0})

\* The array is returned, and its last entry painted a pixel that an entry
\* painted before it had left higher.
C9_Witness ==
    /\ last.op = "create_height_map"
    /\ todo = {}
    /\ last.raised = "None"
    /\ \E px \in DOMAIN height_map :
           /\ last.voxel \in Covering(px[1], px[2])
           /\ scaled_z_of(last.voxel) < height_map[px]
           /\ 0 < scaled_z_of(last.voxel)

-----------------------------------------------------------------------------
(* Claims about failures, under SpecOracleFails *)

\* How many entries of the list are x.
Count(s, x) == Cardinality({i \in 1..Len(s) : s[i] = x})

\* From grid a to grid b the voxels of T, and no others, were occupied in
\* full: each got its map entry and one entry in each cache.
OccupiedInFull(a, b, T) ==
    /\ T \cap DOMAIN a.value_from_voxel = {}
    /\ DOMAIN b.value_from_voxel = DOMAIN a.value_from_voxel \cup T
    /\ \A v \in DOMAIN a.value_from_voxel :
           b.value_from_voxel[v] = a.value_from_voxel[v]
    /\ \A v \in Voxels :
           LET n == IF v \in T THEN 1 ELSE 0
           IN /\ Count(b.occupied_voxel_points, v)
                     = Count(a.occupied_voxel_points, v) + n
              /\ Count(b.occupied_points, center_from_voxel(v))
                     = Count(a.occupied_points, center_from_voxel(v)) + n

\* From grid a to grid b the voxels of T, and no others, were freed in full:
\* each lost its map entry and one entry in each cache.
FreedInFull(a, b, T) ==
    /\ T \subseteq DOMAIN a.value_from_voxel
    /\ DOMAIN b.value_from_voxel = DOMAIN a.value_from_voxel \ T
    /\ \A v \in DOMAIN b.value_from_voxel :
           b.value_from_voxel[v] = a.value_from_voxel[v]
    /\ \A v \in Voxels :
           LET n == IF v \in T THEN 1 ELSE 0
           IN /\ Count(b.occupied_voxel_points, v) + n
                     = Count(a.occupied_voxel_points, v)
              /\ Count(b.occupied_points, center_from_voxel(v)) + n
                     = Count(a.occupied_points, center_from_voxel(v))

\* Every key of the map has its cache entries and every cache entry its key.
NotCorrupted(g) ==
    /\ Lockstep(g)
    /\ Range(g.occupied_voxel_points) = DOMAIN g.value_from_voxel

\* The voxels add_bodies (flag FALSE) or remove_bodies (flag TRUE) means to
\* change: the candidates at which the oracle reports a collision.
Intended(flag) ==
    LET d == get_affected(last.pre, world_from_grid, last.scene, last.bodies,
                          flag)
    IN {v \in Range(d.keys) : check_collision(last.scene, v, d.val[v])}

\* C11: when set_occupied or set_free returns or raises, the voxel has been
\* changed in the map and both caches together or not at all; when
\* add_bodies or remove_bodies returns or raises, a failure of the oracle
\* included, the grid is the one before the call with some of the intended
\* voxels changed in full; and a grid whose caches matched its map before is
\* never left with a key without cache entries or a cache entry without key.
C11_TransitionsAtomic ==
    /\ last.op = "set_occupied" =>
           Self = last.pre \/ OccupiedInFull(last.pre, Self, {last.voxel})
    /\ last.op = "set_free" =>
           Self = last.pre \/ FreedInFull(last.pre, Self, {last.voxel})
    /\ last.op = "add_bodies" =>
           \E T \in SUBSET Intended(FALSE) : OccupiedInFull(last.pre, Self, T)
    /\ last.op = "remove_bodies" =>
           \E T \in SUBSET Intended(TRUE) : FreedInFull(last.pre, Self, T)
    /\ (last.op \in {"set_occupied", "set_free", "add_bodies", "remove_bodies"}
        /\ NotCorrupted(last.pre)) => NotCorrupted(Self)

-----------------------------------------------------------------------------
(* Claims about get_value, under SpecValues *)

\* C12: get_value on a voxel that is not occupied fails with an error and
\* leaves the map and the caches as they were; on an occupied voxel it
\* returns the value stored for it, which is the default value after a
\* set_occupied that occupied it and the value of the last set_value, and
\* which a call on another voxel does not change.
C12_GetValueReadsStored ==
    /\ last.op = "get_value" =>
           /\ Self = last.pre
           /\ last.voxel \notin DOMAIN value_from_voxel =>
                  last.raised \in {"AssertionError", "KeyError"}
           /\ last.voxel \in DOMAIN value_from_voxel =>
                  /\ last.raised = "None"
                  /\ last.value = value_from_voxel[last.voxel]
    /\ \A optimized \in BOOLEAN :
           /\ last.op = "set_value" =>
                  get_value(Self, last.voxel, optimized) =
                      [raised |-> "None", value |-> last.value]
           /\ (last.op = "set_occupied" /\ last.ret = "True") =>
                  get_value(Self, last.voxel, optimized) =
                      [raised |-> "None", value |-> default]
           /\ (last.op = "set_occupied" /\ last.ret = "False") =>
                  get_value(Self, last.voxel, optimized) =
                      get_value(last.pre, last.voxel, optimized)
           /\ (last.op = "set_free" /\ last.ret # "False") =>
                  get_value(Self, last.voxel, optimized).raised # "None"
           /\ last.op \in {"set_value", "set_occupied", "set_free"} =>
                  \A u \in Voxels \ {last.voxel} :
                      get_value(Self, u, optimized) =
                          get_value(last.pre, u, optimized)

\* get_value has returned a value that set_value stored and that is not the
\* default value.
C12_Witness ==
    /\ last.op = "get_value"
    /\ last.raised = "None"
    /\ last.value # default

-----------------------------------------------------------------------------
(* Claims about the failures and the termination of ray_trace, under SpecRay *)

\* The errors that tell the caller an argument is not valid.
InvalidArgument == {"ValueError", "AssertionError"}

\* C13: ray_trace from an unoccupied start voxel to a goal point that is the
\* centre of that voxel fails with an invalid-argument error: it does not
\* divide by zero and it does not return success.
C13_DegenerateRayRejected ==
    (last.op = "ray_trace"
     /\ last.start_cell \notin DOMAIN value_from_voxel
     /\ last.goal_point = center_from_voxel(last.start_cell)) =>
        /\ last.raised \in InvalidArgument
        /\ last.success # "True"

\* The distance of two cells along the axes.
Manhattan(u, w) ==
    LET Abs(x) == IF x < 0 THEN -x ELSE x
    IN Abs(u[1] - w[1]) + Abs(u[2] - w[2]) + Abs(u[3] - w[3])

\* C14: ray_trace from an unoccupied start voxel to a goal point that is not
\* the start's centre ends in the marching loop, at the goal voxel or at an
\* occupied cell, with no assertion failed and after no more steps than the
\* Manhattan distance of start and goal voxel; every step goes to a cell
\* that shares a face with the one before and is no farther from the goal
\* voxel.
C14_RayTraceMarchIsBounded ==
    (last.op = "ray_trace"
     /\ last.start_cell \notin DOMAIN value_from_voxel
     /\ last.goal_point # center_from_voxel(last.start_cell)) =>
        LET goal_cell == voxel_from_point(world_from_grid, last.goal_point)
        IN /\ last.raised = "None"
           /\ last.success \in {"True", "False"}
           /\ Len(last.path) <= Manhattan(last.start_cell, goal_cell)
           /\ \A n \in 1..(Len(last.path) - 1) :
                  /\ FaceAdjacent(last.path[n], last.path[n + 1])
                  /\ Manhattan(last.path[n + 1], goal_cell)
                         <= Manhattan(last.path[n], goal_cell)

====
